---- MODULE Spec2Model ----
(***************************************************************************)
(* State-machine model of HtmlMinimizerPlugin (src/src/index.js): the      *)
(* constructor's option defaults, getAvailableNumberOfCores, apply and the *)
(* optimize routine (filter, cache lookup, worker sizing, task bodies,     *)
(* throttled run, pool teardown).  throttleAll (./utils) and minify        *)
(* (./minify) are not part of src/: the throttled run follows spec.md 4.5  *)
(* and a minimization call is an external call with every outcome the     *)
(* interface allows (a result with warnings and errors, or a rejection).   *)
(***************************************************************************)
EXTENDS Integers, Sequences, FiniteSets, TLC

(* ------------------------------ bounds --------------------------------- *)

\* optimize passes run in one behaviour
MaxPasses == 2
\* host CPUs and numeric parallel values drawn for getAvailableNumberOfCores
MaxCpus == 6

(* --------------------------- the asset set ----------------------------- *)

\* Object.keys(assets): the asset names in their enumeration order
AssetNames == <<"a.html", "b.html", "c.js">>

Names == {AssetNames[i] : i \in 1..Len(AssetNames)}

\* the names the default test /\.html(\?.*)?$/i selects
HtmlNames == {"a.html", "b.html"}

\* raw contents a compilation may produce for an asset
RawContents == {1, 2}

\* ModuleFilenameHelpers.matchObject(this.options, name), default test,
\* no include, no exclude
matchObject(name) == name \in HtmlNames

\* the content a minimizer implementation returns for an input
Minified(input) == input + 10

\* cache.getLazyHashedEtag(source): a deterministic hash of the content
getLazyHashedEtagOfNothing(content) == 7

getLazyHashedEtag(content) == (content * 7) % 13

(* ----------------------- options and core count ------------------------ *)

\* the value of the `parallel` option as given to the constructor
ParallelAbsent == [kind |-> "absent", n |-> 0]
ParallelBool(b) == [kind |-> IF b THEN "true" ELSE "false", n |-> 0]
ParallelNum(n) == [kind |-> "number", n |-> n]

\* const { parallel = true } = options || {}
DefaultParallel(p) == IF p.kind = "absent" THEN ParallelBool(TRUE) ELSE p

\* os.cpus() || { length: 1 }
CpusLength(cpus) == IF cpus.defined THEN cpus.length ELSE 1

\* Number(parallel) || 0 for a boolean or integer option
NumberOrZero(p) == IF p.kind = "number" THEN p.n ELSE IF p.kind = "true" THEN 1 ELSE 0

MinOf(a, b) == IF a <= b THEN a ELSE b

getAvailableNumberOfCoresNoCap(p, cpus) ==
  IF p.kind = "true" THEN CpusLength(cpus) - 1 ELSE NumberOrZero(p)

getAvailableNumberOfCores(p, cpus) ==
  IF p.kind = "true"
    THEN CpusLength(cpus) - 1
    ELSE MinOf(NumberOrZero(p), CpusLength(cpus) - 1)

(* ------------------------- errors and warnings ------------------------- *)

\* what a minimization call rejects with (an Error object, with a stack)
ThrownError(what) == [str |-> FALSE, message |-> what, stack |-> TRUE]

\* the i-th error / warning of a result's list (a plain string)
ReturnedDiag(i) == [str |-> TRUE, message |-> i, stack |-> FALSE]

\* a list of k returned errors or warnings
DiagList(k) == [i \in 1..k |-> ReturnedDiag(i)]

buildWarning(warning, file) ==
  [file |-> file, name |-> "Warning", message |-> warning.message, stack |-> FALSE]

buildError(error, file) ==
  IF error.str
    THEN [file |-> file, name |-> "Error", message |-> error.message, stack |-> FALSE]
    ELSE [file |-> file, name |-> "Error", message |-> error.message,
          stack |-> error.stack]

(* ------------------------------- state --------------------------------- *)

VARIABLES
  parallel,               \* the `parallel` option given to the constructor
  cpus,                   \* what os.cpus() returns on this host
  availableNumberOfCores, \* computed once by apply
  phase,                  \* where the plugin is: constructed, ready, cache,
                          \* throttle, ending, done, rejected
  assets,                 \* the compilation's assets: name -> content, info
  errors,                 \* compilation.errors
  warnings,               \* compilation.warnings
  cache,                  \* the cache store: <<name, eTag>> -> stored entry
  assetsForMinify,        \* the surviving names, in order
  item,                   \* per surviving name: inputSource, eTag, output
  numberOfAssets,         \* the pending-work counter
  getWorker,              \* whether the getWorker accessor is defined
  numberOfWorkers,        \* the pool size (meaningful when getWorker)
  initializedWorker,      \* <<>> or <<the pool>>
  limit,                  \* the limit handed to throttleAll
  task,                   \* per name: none, pending, minify, store,
                          \* fulfilled, rejected
  taskOutput,             \* per name: the task's local `output` once computed
  startAssets,            \* history: the assets when the pass began
  startErrors,            \* history: Len(errors) when the pass began
  startWarnings,          \* history: Len(warnings) when the pass began
  lookups,                \* history: names whose cache lookup resolved
  invoked,                \* history: names whose minimization call was made
  stored,                 \* history: cache keys written in this pass
  updated,                \* history: per name, updateAsset calls in this pass
  poolsCreated,           \* history: pools constructed in this pass
  endCalls,               \* history: pool end() calls in this pass
  passes,                 \* history: passes begun so far
  passInCompilation,      \* history: passes begun in this compilation
  prev,                   \* history: the previous compilation's only pass
  caught,                 \* history: names whose task ran the catch block
  lastStart,              \* history: the assets when the previous pass began
  given                   \* history: the `parallel` option as the caller gave it

configVars == <<parallel, cpus, availableNumberOfCores>>
buildVars == <<assets, errors, warnings>>
passVars == <<assetsForMinify, item, numberOfAssets, getWorker, numberOfWorkers,
              initializedWorker, limit, task, taskOutput>>
historyVars == <<startAssets, startErrors, startWarnings, lookups, invoked, stored,
                 updated, poolsCreated, endCalls, passes, passInCompilation, prev,
                 caught, lastStart, given>>
vars == <<configVars, phase, buildVars, cache, passVars, historyVars>>

(* ------------------------------ helpers -------------------------------- *)

NoItem == [inputSource |-> 0, eTag |-> 0, output |-> <<>>]

\* the assets a fresh compilation may hold: nothing minimized yet, and
\* a.html is the asset whose source changes from build to build
FreshAssets ==
  {[n \in Names |-> [content |-> IF n = "a.html" THEN c ELSE 1,
                     minimized |-> FALSE]] : c \in RawContents}

AllContents == RawContents \cup {Minified(c) : c \in RawContents}

CacheKeys == {<<n, getLazyHashedEtag(c)>> : n \in Names, c \in AllContents}

\* what compilation.getCache hands over when the plugin starts: an empty
\* store, or a store that kept the entries an earlier build wrote for
\* a.html and b.html
PersistedCaches ==
  {[k \in CacheKeys |-> <<>>],
   [k \in CacheKeys |->
      IF k = <<"a.html", getLazyHashedEtag(2)>>
        THEN <<[source |-> Minified(2), errors |-> <<>>, warnings |-> <<>>]>>
      ELSE IF k = <<"b.html", getLazyHashedEtag(1)>>
        THEN <<[source |-> Minified(1), errors |-> <<>>, warnings |-> <<>>]>>
        ELSE <<>>]}

Surviving == {assetsForMinify[i] : i \in 1..Len(assetsForMinify)}

Running == {n \in Names : task[n] \in {"minify", "store"}}

Settled == {n \in Names : task[n] \in {"fulfilled", "rejected"}}

Pending == {n \in Names : task[n] = "pending"}

NoAssets == [n \in Names |-> [content |-> 0, minimized |-> FALSE]]

NoPrev == [done |-> FALSE, start |-> NoAssets, assets |-> NoAssets,
           errors |-> <<>>, warnings |-> <<>>]

(* ---------------------- pieces of the optimize code -------------------- *)

\* the filter callback: keep the asset?
KeepAssetIgnoringMinimized(info, name) == matchObject(name)

KeepAsset(info, name) ==
  IF info.minimized THEN FALSE ELSE IF ~matchObject(name) THEN FALSE ELSE TRUE

\* if (!output)
IsMissAlways(output) == TRUE

IsMiss(output) == output = <<>>

\* numberOfWorkers = Math.min(numberOfAssets, availableNumberOfCores)
WorkersAllCores(nAssets, cores) == cores

NumberOfWorkers(nAssets, cores) == MinOf(nAssets, cores)

\* limit = getWorker && numberOfAssets > 0 ? numberOfWorkers : scheduledTasks.length
LimitTaskCount(gw, nAssets, nWorkers, nTasks) == nTasks

LimitWorkersWhenever(gw, nAssets, nWorkers, nTasks) ==
  IF gw THEN nWorkers ELSE nTasks

Limit(gw, nAssets, nWorkers, nTasks) ==
  IF gw /\ nAssets > 0 THEN nWorkers ELSE nTasks

\* getWorker: if (initializedWorker) return initializedWorker; else construct
NeedsNewPoolAlways(worker) == TRUE

NeedsNewPool(worker) == worker = <<>>

\* if (initializedWorker) await initializedWorker.end()
ShouldEndNever(worker) == FALSE

ShouldEnd(worker) == worker # <<>>

\* new RawSource(output.code)
RawSource(code) == code

\* the entry handed to cacheItem.storePromise
StoredEntryNoDiagnostics(output) ==
  [source |-> output.source, errors |-> <<>>, warnings |-> <<>>]

StoredEntry(output) ==
  [source |-> output.source, errors |-> output.errors, warnings |-> output.warnings]

\* compilation.updateAsset(name, source, newInfo)
updateAssetContentOnly(as, name, source, newInfo) ==
  [as EXCEPT ![name] = [content |-> source, minimized |-> as[name].minimized]]

updateAssetOfFirstTask(as, name, source, newInfo) ==
  [as EXCEPT ![AssetNames[1]] = [content |-> source, minimized |-> newInfo.minimized]]

updateAsset(as, name, source, newInfo) ==
  [as EXCEPT ![name] = [content |-> source, minimized |-> newInfo.minimized]]

\* the catch block: compilation.errors.push(buildError(error, name)); return
CatchPushNothing(errs, error, name) == errs

CatchPush(errs, error, name) == Append(errs, buildError(error, name))

\* the for-of loops over output.warnings and output.errors
PushWarnings(ws, output, name) ==
  ws \o [i \in 1..Len(output.warnings) |-> buildWarning(output.warnings[i], name)]

PushErrors(es, output, name) ==
  es \o [i \in 1..Len(output.errors) |-> buildError(output.errors[i], name)]

(* ------------------------------- Init ---------------------------------- *)

\* the `parallel` options and hosts the optimize passes are run under
ParallelChoices ==
  {ParallelAbsent, ParallelBool(FALSE), ParallelNum(1), ParallelNum(0 - 1)}

HostChoices == {[defined |-> TRUE, length |-> 3]}

\* the `parallel` options and hosts getAvailableNumberOfCores is applied to
AllParallel ==
  {ParallelAbsent, ParallelBool(TRUE), ParallelBool(FALSE)}
    \cup {ParallelNum(n) : n \in (0 - 2)..MaxCpus}

AllHosts ==
  {[defined |-> FALSE, length |-> 0]}
    \cup {[defined |-> TRUE, length |-> c] : c \in 0..MaxCpus}

\* the state after new HtmlMinimizerPlugin(options), before apply
InitWith(parallels, hosts) ==
  /\ given \in parallels
  /\ parallel = DefaultParallel(given)
  /\ cpus \in hosts
  /\ availableNumberOfCores = 0
  /\ phase = "constructed"
  /\ assets \in FreshAssets
  /\ errors = <<>>
  /\ warnings = <<>>
  /\ cache \in PersistedCaches
  /\ assetsForMinify = <<>>
  /\ item = [n \in Names |-> NoItem]
  /\ numberOfAssets = 0
  /\ getWorker = FALSE
  /\ numberOfWorkers = 0
  /\ initializedWorker = <<>>
  /\ limit = 0
  /\ task = [n \in Names |-> "none"]
  /\ taskOutput = [n \in Names |-> <<>>]
  /\ startAssets = assets
  /\ startErrors = 0
  /\ startWarnings = 0
  /\ lookups = {}
  /\ invoked = {}
  /\ stored = {}
  /\ updated = [n \in Names |-> 0]
  /\ poolsCreated = 0
  /\ endCalls = 0
  /\ passes = 0
  /\ passInCompilation = 0
  /\ prev = NoPrev
  /\ caught = {}
  /\ lastStart = assets

Init == InitWith(ParallelChoices, HostChoices)

InitCores ==
  /\ InitWith(AllParallel, AllHosts)
  /\ assets = [n \in Names |-> [content |-> 1, minimized |-> FALSE]]

(* ------------------------------ actions -------------------------------- *)

\* apply(compiler): the core count is computed once, from this.options.parallel
Apply ==
  /\ phase = "constructed"
  /\ availableNumberOfCores' = getAvailableNumberOfCores(parallel, cpus)
  /\ phase' = "ready"
  /\ UNCHANGED <<parallel, cpus, buildVars, cache, passVars, historyVars>>

\* the host starts a new compilation: fresh assets, empty error and warning
\* lists, the same cache store
NewCompilation ==
  /\ phase \in {"done", "rejected"}
  /\ passes < MaxPasses
  /\ assets' \in FreshAssets
  /\ errors' = <<>>
  /\ warnings' = <<>>
  /\ phase' = "ready"
  /\ prev' = IF phase = "done" /\ passInCompilation = 1 /\ assets' = startAssets
               THEN [done |-> TRUE, start |-> startAssets, assets |-> assets,
                     errors |-> errors, warnings |-> warnings]
               ELSE NoPrev
  /\ passInCompilation' = 0
  /\ startAssets' = assets'
  /\ startErrors' = 0
  /\ startWarnings' = 0
  /\ assetsForMinify' = <<>>
  /\ item' = [n \in Names |-> NoItem]
  /\ numberOfAssets' = 0
  /\ getWorker' = FALSE
  /\ numberOfWorkers' = 0
  /\ initializedWorker' = <<>>
  /\ limit' = 0
  /\ task' = [n \in Names |-> "none"]
  /\ taskOutput' = [n \in Names |-> <<>>]
  /\ lookups' = {}
  /\ invoked' = {}
  /\ stored' = {}
  /\ updated' = [n \in Names |-> 0]
  /\ poolsCreated' = 0
  /\ endCalls' = 0
  /\ caught' = {}
  /\ lastStart' = startAssets
  /\ UNCHANGED <<configVars, cache, passes, given>>

\* optimize is called: the filter runs, and for every surviving asset the
\* synchronous part of the map callback (eTag, cache handle, getPromise)
BeginOptimize ==
  /\ phase \in {"ready", "done", "rejected"}
  /\ passes < MaxPasses
  /\ LET keep == SelectSeq(AssetNames, LAMBDA n : KeepAsset(assets[n], n))
         kept == {keep[i] : i \in 1..Len(keep)}
     IN /\ assetsForMinify' = keep
        /\ item' = [n \in Names |->
                      IF n \in kept
                        THEN [inputSource |-> assets[n].content,
                              eTag |-> getLazyHashedEtag(assets[n].content),
                              output |-> <<>>]
                        ELSE NoItem]
  /\ phase' = "cache"
  /\ numberOfAssets' = 0
  /\ getWorker' = FALSE
  /\ numberOfWorkers' = 0
  /\ initializedWorker' = <<>>
  /\ limit' = 0
  /\ task' = [n \in Names |-> "none"]
  /\ taskOutput' = [n \in Names |-> <<>>]
  /\ startAssets' = assets
  /\ startErrors' = Len(errors)
  /\ startWarnings' = Len(warnings)
  /\ lookups' = {}
  /\ invoked' = {}
  /\ stored' = {}
  /\ updated' = [n \in Names |-> 0]
  /\ poolsCreated' = 0
  /\ endCalls' = 0
  /\ passes' = passes + 1
  /\ passInCompilation' = passInCompilation + 1
  /\ caught' = {}
  /\ lastStart' = IF passInCompilation = 0 THEN lastStart ELSE startAssets
  /\ UNCHANGED <<configVars, buildVars, cache, prev, given>>

\* await cacheItem.getPromise() resolves for one asset
CacheLookup(n) ==
  /\ phase = "cache"
  /\ n \in Surviving \ lookups
  /\ LET output == cache[<<n, item[n].eTag>>]
     IN /\ item' = [item EXCEPT ![n].output = output]
        /\ numberOfAssets' = IF output = <<>> THEN numberOfAssets + 1 ELSE numberOfAssets
  /\ lookups' = lookups \cup {n}
  /\ UNCHANGED <<configVars, phase, buildVars, cache, assetsForMinify, getWorker,
                 numberOfWorkers, initializedWorker, limit, task, taskOutput,
                 startAssets, startErrors, startWarnings, invoked, stored, updated,
                 poolsCreated, endCalls, passes, passInCompilation, prev,
                 caught, lastStart, given>>

\* await cacheItem.getPromise() rejects: Promise.all rejects and so does optimize
CacheLookupFail(n) ==
  /\ phase = "cache"
  /\ n \in Surviving \ lookups
  /\ phase' = "rejected"
  /\ UNCHANGED <<configVars, buildVars, cache, passVars, historyVars>>

\* Promise.all has resolved: the early return, or worker sizing, task
\* construction, the limit and the call of throttleAll
Schedule ==
  /\ phase = "cache"
  /\ lookups = Surviving
  /\ IF Len(assetsForMinify) = 0
       THEN /\ phase' = "done"
            /\ UNCHANGED <<getWorker, numberOfWorkers, limit, task>>
       ELSE /\ getWorker' = (availableNumberOfCores > 0)
            /\ numberOfWorkers' =
                 IF availableNumberOfCores > 0
                   THEN NumberOfWorkers(numberOfAssets, availableNumberOfCores)
                   ELSE 0
            /\ task' = [n \in Names |-> IF n \in Surviving THEN "pending" ELSE "none"]
            /\ limit' = Limit(getWorker', numberOfAssets, numberOfWorkers',
                              Len(assetsForMinify))
            /\ phase' = "throttle"
  /\ UNCHANGED <<configVars, buildVars, cache, assetsForMinify, item, numberOfAssets,
                 initializedWorker, taskOutput, historyVars>>

(* --------------------------- the task body ----------------------------- *)

\* the results a minimization call may resolve with for an input
Results(input) ==
  {[code |-> Minified(input), warnings |-> DiagList(d[1]), errors |-> DiagList(d[2])] :
     d \in {<<0, 0>>, <<2, 0>>, <<1, 1>>}}

\* lines 400-420: newInfo, the warnings, the errors, updateAsset
Finish(n, output) ==
  /\ UNCHANGED caught
  /\ warnings' = PushWarnings(warnings, output, n)
  /\ errors' = PushErrors(errors, output, n)
  /\ assets' = updateAsset(assets, n, output.source, [minimized |-> TRUE])
  /\ updated' = [updated EXCEPT ![n] = updated[n] + 1]

\* the catch block of lines 382-389
Catch(n, error) ==
  /\ errors' = CatchPush(errors, error, n)
  /\ caught' = caught \cup {n}
  /\ UNCHANGED <<assets, warnings, updated>>

\* throttleAll may start another task
MayStartUnbounded(nRunning, lim) == TRUE

MayStart(nRunning, lim) == nRunning < lim

\* throttleAll resolves: every task has settled
ThrottleSettledWhenAllStarted(pending, running) == pending = {}

ThrottleSettled(pending, running) == pending = {} /\ running = {}

\* the next pending task in the original order
NextPending ==
  LET idx == {i \in 1..Len(assetsForMinify) : task[assetsForMinify[i]] = "pending"}
  IN assetsForMinify[CHOOSE i \in idx : \A j \in idx : i <= j]

\* throttleAll starts the next pending task, which runs to its first await
\* or, with nothing to await, to its end
TaskStart ==
  /\ phase = "throttle"
  /\ Pending # {}
  /\ MayStart(Cardinality(Running), limit)
  /\ LET n == NextPending
     IN \/ \* a stored entry: no await, the task completes
           /\ ~IsMiss(item[n].output)
           /\ Finish(n, item[n].output[1])
           /\ task' = [task EXCEPT ![n] = "fulfilled"]
           /\ UNCHANGED <<initializedWorker, poolsCreated, invoked>>
        \/ \* in-process: minify(options) is called
           /\ IsMiss(item[n].output)
           /\ ~getWorker
           /\ task' = [task EXCEPT ![n] = "minify"]
           /\ invoked' = invoked \cup {n}
           /\ UNCHANGED <<buildVars, updated, caught, initializedWorker, poolsCreated>>
        \/ \* getWorker() throws constructing the pool
           /\ IsMiss(item[n].output)
           /\ getWorker
           /\ NeedsNewPool(initializedWorker)
           /\ Catch(n, ThrownError(1))
           /\ task' = [task EXCEPT ![n] = "fulfilled"]
           /\ UNCHANGED <<initializedWorker, poolsCreated, invoked>>
        \/ \* getWorker() returns the pool, constructing it on the first use
           /\ IsMiss(item[n].output)
           /\ getWorker
           /\ initializedWorker' =
                IF NeedsNewPool(initializedWorker)
                  THEN <<[numWorkers |-> numberOfWorkers, ended |-> FALSE]>>
                  ELSE initializedWorker
           /\ poolsCreated' = IF NeedsNewPool(initializedWorker)
                              THEN poolsCreated + 1
                              ELSE poolsCreated
           /\ \/ \* serialize(options) throws
                 /\ Catch(n, ThrownError(2))
                 /\ task' = [task EXCEPT ![n] = "fulfilled"]
                 /\ UNCHANGED invoked
              \/ \* transform(serialize(options)) is called
                 /\ task' = [task EXCEPT ![n] = "minify"]
                 /\ invoked' = invoked \cup {n}
                 /\ UNCHANGED <<buildVars, updated, caught>>
  /\ UNCHANGED <<configVars, phase, cache, assetsForMinify, item, numberOfAssets,
                 getWorker, numberOfWorkers, limit, taskOutput, startAssets,
                 startErrors, startWarnings, lookups, stored, endCalls, passes,
                 passInCompilation, prev, lastStart, given>>

\* the minimization call resolves: output.source is set and storePromise called
MinifyReturn(n) ==
  /\ phase = "throttle"
  /\ task[n] = "minify"
  /\ \E r \in Results(item[n].inputSource) :
       taskOutput' = [taskOutput EXCEPT ![n] =
                        <<[code |-> r.code, warnings |-> r.warnings,
                           errors |-> r.errors, source |-> RawSource(r.code)]>>]
  /\ task' = [task EXCEPT ![n] = "store"]
  /\ UNCHANGED <<configVars, phase, buildVars, cache, assetsForMinify, item,
                 numberOfAssets, getWorker, numberOfWorkers, initializedWorker, limit,
                 historyVars>>

\* the minimization call rejects: the catch block runs and the task returns
MinifyThrow(n) ==
  /\ phase = "throttle"
  /\ task[n] = "minify"
  /\ Catch(n, ThrownError(0))
  /\ task' = [task EXCEPT ![n] = "fulfilled"]
  /\ UNCHANGED <<configVars, phase, cache, assetsForMinify, item, numberOfAssets,
                 getWorker, numberOfWorkers, initializedWorker, limit, taskOutput,
                 startAssets, startErrors, startWarnings, lookups, invoked, stored,
                 poolsCreated, endCalls, passes, passInCompilation, prev, lastStart,
                 given>>

\* storePromise resolves: the entry is in the store, and the task goes on
\* to the warnings, the errors and updateAsset
StoreDone(n) ==
  /\ phase = "throttle"
  /\ task[n] = "store"
  /\ cache' = [cache EXCEPT ![<<n, item[n].eTag>>] = <<StoredEntry(taskOutput[n][1])>>]
  /\ stored' = stored \cup {<<n, item[n].eTag>>}
  /\ Finish(n, taskOutput[n][1])
  /\ task' = [task EXCEPT ![n] = "fulfilled"]
  /\ taskOutput' = [taskOutput EXCEPT ![n] = <<>>]
  /\ UNCHANGED <<configVars, phase, assetsForMinify, item, numberOfAssets, getWorker,
                 numberOfWorkers, initializedWorker, limit, startAssets,
                 startErrors, startWarnings, lookups, invoked, poolsCreated, endCalls,
                 passes, passInCompilation, prev, lastStart, given>>

\* storePromise rejects: nothing catches it, the task's promise rejects
StoreFail(n) ==
  /\ phase = "throttle"
  /\ task[n] = "store"
  /\ task' = [task EXCEPT ![n] = "rejected"]
  /\ UNCHANGED <<configVars, phase, buildVars, cache, assetsForMinify, item,
                 numberOfAssets, getWorker, numberOfWorkers, initializedWorker, limit,
                 taskOutput, historyVars>>

\* throttleAll resolves once every task has settled; then the pool, if one
\* was constructed, is ended
ThrottleResolved ==
  /\ phase = "throttle"
  /\ ThrottleSettled(Pending, Running)
  /\ IF ShouldEnd(initializedWorker)
       THEN /\ phase' = "ending"
            /\ endCalls' = endCalls + 1
       ELSE /\ phase' = "done"
            /\ UNCHANGED endCalls
  /\ UNCHANGED <<configVars, buildVars, cache, passVars, startAssets, startErrors,
                 startWarnings, lookups, invoked, stored, updated, poolsCreated,
                 passes, passInCompilation, prev, caught, lastStart, given>>

\* await initializedWorker.end() resolves and optimize returns
WorkerEnded ==
  /\ phase = "ending"
  /\ initializedWorker' = <<[initializedWorker[1] EXCEPT !.ended = TRUE]>>
  /\ phase' = "done"
  /\ UNCHANGED <<configVars, buildVars, cache, assetsForMinify, item, numberOfAssets,
                 getWorker, numberOfWorkers, limit, task, taskOutput, historyVars>>

Next ==
  \/ Apply
  \/ NewCompilation
  \/ BeginOptimize
  \/ \E n \in Names : CacheLookup(n)
  \/ \E n \in Names : CacheLookupFail(n)
  \/ Schedule
  \/ TaskStart
  \/ \E n \in Names : MinifyReturn(n)
  \/ \E n \in Names : MinifyThrow(n)
  \/ \E n \in Names : StoreDone(n)
  \/ \E n \in Names : StoreFail(n)
  \/ ThrottleResolved
  \/ WorkerEnded

Spec == Init /\ [][Next]_vars

\* the steps of a pass that has begun: the cache lookups, the task steps the
\* event loop runs, throttleAll resolving and the pool shutting down
PassStep ==
  \/ \E n \in Names : CacheLookup(n)
  \/ \E n \in Names : CacheLookupFail(n)
  \/ Schedule
  \/ TaskStart
  \/ \E n \in Names : MinifyReturn(n)
  \/ \E n \in Names : MinifyThrow(n)
  \/ \E n \in Names : StoreDone(n)
  \/ \E n \in Names : StoreFail(n)
  \/ ThrottleResolved
  \/ WorkerEnded

\* the passes over one compilation under fair scheduling: a pass that can
\* take a step takes one, so every cache operation, minimization call and
\* pool shutdown that is awaited returns or fails
NextFair ==
  \/ Apply
  \/ BeginOptimize
  \/ PassStep

SpecFair == Init /\ [][NextFair]_vars /\ WF_vars(PassStep)

\* getAvailableNumberOfCores applied to every option and host
NextCores == Apply

SpecCores == InitCores /\ [][NextCores]_vars

(* ====================== properties of the plugin ======================= *)

\* an optimize pass has begun (and may have ended)
InPass == phase \in {"cache", "throttle", "ending", "done", "rejected"}

\* the asset matched the rule and was not flagged minimized when the pass began
Eligible(n) == n \in HtmlNames /\ ~startAssets[n].minimized

\* what this pass has appended to the build's error and warning lists
PassErrors == SubSeq(errors, startErrors + 1, Len(errors))

PassWarnings == SubSeq(warnings, startWarnings + 1, Len(warnings))

TaggedWith(list, n) == SelectSeq(list, LAMBDA e : e.file = n)

\* the key of the asset's cache handle in this pass
KeyOf(n) == <<n, item[n].eTag>>

\* the lookup of a surviving asset resolved with a stored entry
IsHit(n) == n \in lookups /\ item[n].output # <<>>

(* ------------------------------- C1 ------------------------------------ *)

\* C1: when a pass completes, every asset that matched the rule and was not
\* flagged minimized at its start either (a) holds the minimization result
\* with info {minimized: true}, or (b) is unchanged and has an error tagged
\* with its name in the build error list.
C1_EveryEligibleAssetMinimizedOrReported ==
  phase = "done" =>
    \A n \in Names :
      Eligible(n) =>
        \/ assets[n] = [content |-> Minified(startAssets[n].content),
                        minimized |-> TRUE]
        \/ /\ assets[n] = startAssets[n]
           /\ TaggedWith(PassErrors, n) # <<>>

(* ------------------------------- C2 ------------------------------------ *)

\* C2: an asset flagged minimized, or whose name the rule does not match,
\* gets no task, no cache lookup and no minimizer invocation in a pass, and
\* its content and info stay as they were, in every pass.
C2_SkippedAssetsUntouched ==
  InPass =>
    \A n \in Names :
      ~Eligible(n) =>
        /\ n \notin Surviving
        /\ task[n] = "none"
        /\ n \notin lookups
        /\ n \notin invoked
        /\ updated[n] = 0
        /\ assets[n] = startAssets[n]

\* a second pass over the same assets has completed: a.html, minimized by
\* the first pass, was skipped while b.html was minimized
C2_Witness ==
  /\ phase = "done"
  /\ passInCompilation = 2
  /\ startAssets["a.html"].minimized
  /\ updated["b.html"] = 1

(* ------------------------------- C3 ------------------------------------ *)

\* C3: when the minimization call of an asset throws or rejects, exactly
\* one error tagged with the asset's name is appended, the asset's content
\* and info stay unchanged, no cache entry is written for it, and the other
\* tasks of the pass still run to their own settlement.
C3_ThrowIsolatedToItsAsset ==
  /\ \A n \in caught :
       /\ Len(TaggedWith(PassErrors, n)) = 1
       /\ assets[n] = startAssets[n]
       /\ updated[n] = 0
       /\ KeyOf(n) \notin stored
       /\ cache[KeyOf(n)] = <<>>
       /\ task[n] = "fulfilled"
  /\ caught # {} => phase \in {"throttle", "ending", "done"}
  /\ (caught # {} /\ phase \in {"ending", "done"}) => Surviving \subseteq Settled

\* with a limit of 1 the call for a.html threw, and b.html was started
\* afterwards and minimized
C3_Witness ==
  /\ phase = "done"
  /\ limit = 1
  /\ Len(assetsForMinify) = 2
  /\ "a.html" \in caught
  /\ updated["b.html"] = 1

(* ------------------------------- C4 ------------------------------------ *)

C5_CacheHitReplaysStoredEntry ==
  /\ \A n \in Names :
       IsHit(n) =>
         /\ n \notin invoked
         /\ KeyOf(n) \notin stored
         /\ task[n] \in {"none", "pending", "fulfilled"}
         /\ task[n] \in {"none", "pending"} => assets[n] = startAssets[n]
         /\ task[n] = "fulfilled" =>
              /\ updated[n] = 1
              /\ assets[n] = [content |-> item[n].output[1].source, minimized |-> TRUE]
              /\ TaggedWith(PassWarnings, n) =
                   [i \in 1..Len(item[n].output[1].warnings) |->
                      buildWarning(item[n].output[1].warnings[i], n)]
              /\ TaggedWith(PassErrors, n) =
                   [i \in 1..Len(item[n].output[1].errors) |->
                      buildError(item[n].output[1].errors[i], n)]
  /\ (poolsCreated > 0 \/ initializedWorker # <<>>) =>
       \E m \in Surviving : ~IsHit(m) /\ task[m] \notin {"none", "pending"}

\* a pass completed in which a stored entry carrying an error was replayed
\* while a pool was available
C5_Witness ==
  /\ phase = "done"
  /\ getWorker
  /\ \E n \in Names :
       /\ IsHit(n)
       /\ task[n] = "fulfilled"
       /\ Len(item[n].output[1].errors) > 0

(* ------------------------------- C6 ------------------------------------ *)

\* a compilation's first pass has completed, and the compilation before it
\* had the same asset names and contents and ran one completed pass
SecondPassOverSameContent ==
  /\ phase = "done"
  /\ passInCompilation = 1
  /\ prev.done
  /\ startAssets = prev.start

\* C6 as stated: of two passes that share the cache store and see the same
\* names with identical content, the second invokes no minimizer (every
\* lookup is a hit) and produces the same contents, info, warnings and
\* errors as the first.
C6_SecondPassAllHitsSameOutput ==
  SecondPassOverSameContent =>
    /\ invoked = {}
    /\ \A n \in Surviving : IsHit(n)
    /\ assets = prev.assets
    /\ errors = prev.errors
    /\ warnings = prev.warnings

\* C6 amended: the second pass invokes no minimizer for an asset the first
\* pass updated (its lookup is a hit) and gives it the same content, info,
\* warnings and errors as the first pass did; an asset the first pass left
\* without a stored entry is minimized again, and entries of different
\* assets may come in another order.
C6_SecondPassReplaysWhatFirstPassStored ==
  SecondPassOverSameContent =>
    \A n \in Names :
      /\ (Eligible(n) /\ prev.assets[n].minimized) =>
           /\ IsHit(n)
           /\ n \notin invoked
           /\ assets[n] = prev.assets[n]
           /\ TaggedWith(errors, n) = TaggedWith(prev.errors, n)
           /\ TaggedWith(warnings, n) = TaggedWith(prev.warnings, n)
      /\ ~Eligible(n) => assets[n] = prev.assets[n]

\* the second pass replayed, for an asset the first pass had minimized, a
\* result that carries warnings
C6_Witness ==
  /\ SecondPassOverSameContent
  /\ \E n \in Names :
       /\ Eligible(n)
       /\ prev.assets[n].minimized
       /\ updated[n] = 1
       /\ TaggedWith(warnings, n) # <<>>

(* ------------------------------- C7 ------------------------------------ *)

\* the content the asset has in this pass differs from the content it had
\* when the previous pass began
ContentChanged(n) == startAssets[n].content # lastStart[n].content

\* C7 as stated: for an asset whose content differs between two passes the
\* second pass's key differs from the first's, the lookup misses and the
\* minimization call is made again on the new content.
C7_ChangedContentAlwaysMisses ==
  phase = "done" =>
    \A n \in Names :
      (Eligible(n) /\ ContentChanged(n)) =>
        /\ item[n].eTag # getLazyHashedEtag(lastStart[n].content)
        /\ n \in lookups
        /\ ~IsHit(n)
        /\ n \in invoked \/ n \in caught

\* C7 amended: for a surviving asset whose content differs from the one it
\* had in the previous pass, the key differs from the previous pass's key,
\* the lookup returns nothing computed for the old content (it misses,
\* unless an entry for the new content is already stored, which is then
\* replayed), an update after a miss comes from a new minimization call,
\* and the content written is the result for the new content.  An asset
\* whose content changed because the previous pass minimized it is not
\* looked up at all.
C7_ChangedContentNeverGetsOldResult ==
  InPass =>
    \A n \in Names :
      ContentChanged(n) =>
        /\ n \notin Surviving => n \notin lookups /\ n \notin invoked
        /\ n \in Surviving =>
             /\ item[n].eTag # getLazyHashedEtag(lastStart[n].content)
             /\ IsHit(n) =>
                  item[n].output[1].source = Minified(startAssets[n].content)
             /\ (updated[n] > 0 /\ ~IsHit(n)) => n \in invoked
             /\ updated[n] > 0 =>
                  /\ assets[n].content = Minified(startAssets[n].content)
                  /\ assets[n].content # Minified(lastStart[n].content)

\* an asset whose old content has a stored entry came back with new
\* content, missed, and was minimized again
C7_Witness ==
  /\ phase = "done"
  /\ \E n \in Surviving :
       /\ ContentChanged(n)
       /\ cache[<<n, getLazyHashedEtag(lastStart[n].content)>>] # <<>>
       /\ n \in invoked
       /\ updated[n] = 1

(* ------------------------------- C8 ------------------------------------ *)

\* the number of surviving assets whose lookup missed
PendingWorkCount == Cardinality({n \in Surviving : item[n].output = <<>>})

\* C8: with cores > 0 and pending work, the pool size and the Throttle
\* limit are min(pendingWorkCount, availableNumberOfCores); otherwise, with
\* a surviving asset, the limit is the number of tasks.  10 misses on 3
\* cores give 3 and 3; 5 misses without cores give 5.
C8_LimitAndPoolSize ==
  /\ (phase \in {"throttle", "ending", "done"} /\ Surviving # {}) =>
       IF availableNumberOfCores > 0 /\ PendingWorkCount > 0
         THEN /\ limit = MinOf(PendingWorkCount, availableNumberOfCores)
              /\ initializedWorker # <<>> =>
                   initializedWorker[1].numWorkers
                     = MinOf(PendingWorkCount, availableNumberOfCores)
         ELSE /\ limit = Cardinality(Surviving)
              /\ initializedWorker = <<>>
  /\ NumberOfWorkers(10, 3) = 3
  /\ Limit(TRUE, 10, NumberOfWorkers(10, 3), 10) = 3
  /\ Limit(FALSE, 5, 0, 5) = 5

\* two misses on one usable core: a pool of one worker, and a limit of 1
\* for two tasks
C8_Witness ==
  /\ phase = "throttle"
  /\ availableNumberOfCores = 1
  /\ PendingWorkCount = 2
  /\ initializedWorker # <<>>
  /\ limit = 1

(* ------------------------------- C9 ------------------------------------ *)

\* apply has computed the core count on a host reporting c >= 1 CPUs
CoresComputed == phase # "constructed" /\ cpus.defined /\ cpus.length >= 1

\* C9 as stated: true gives c - 1, a number n gives min(n, c - 1), and a
\* non-positive value or an absent option gives a value that is not > 0.
C9_AbsentParallelDisablesPool ==
  CoresComputed =>
    /\ given.kind = "true" => availableNumberOfCores = cpus.length - 1
    /\ given.kind = "number" =>
         availableNumberOfCores = MinOf(given.n, cpus.length - 1)
    /\ (given.kind = "false" \/ (given.kind = "number" /\ given.n <= 0)
          \/ given.kind = "absent") => ~(availableNumberOfCores > 0)

\* C9 amended: true and an absent option (the default is true) give c - 1,
\* a number n gives min(n, c - 1), and false, 0 or a negative number give a
\* value that is not > 0.
C9_ParallelToCores ==
  CoresComputed =>
    /\ (given.kind = "true" \/ given.kind = "absent") =>
         availableNumberOfCores = cpus.length - 1
    /\ given.kind = "number" =>
         /\ availableNumberOfCores <= given.n
         /\ availableNumberOfCores <= cpus.length - 1
         /\ availableNumberOfCores \in {given.n, cpus.length - 1}
    /\ (given.kind = "false" \/ (given.kind = "number" /\ given.n <= 0)) =>
         ~(availableNumberOfCores > 0)

\* a number above the host's c - 1 was capped
C9_Witness ==
  /\ CoresComputed
  /\ given.kind = "number"
  /\ given.n > cpus.length - 1
  /\ availableNumberOfCores = cpus.length - 1
  /\ availableNumberOfCores > 0

(* ------------------------------- C10 ----------------------------------- *)

\* the minimization calls in flight
InFlight == {n \in Names : task[n] = "minify"}

\* C10: the tasks started and not yet settled never outnumber the Throttle
\* limit; so with a pool the minimization calls in flight never outnumber
\* the workers the pool was constructed with.
C10_RunningWithinLimit ==
  phase = "throttle" =>
    /\ Cardinality(Running) <= limit
    /\ initializedWorker # <<>> =>
         Cardinality(InFlight) <= initializedWorker[1].numWorkers

\* a pool of one worker has a call in flight while another task waits
C10_Witness ==
  /\ phase = "throttle"
  /\ initializedWorker # <<>>
  /\ initializedWorker[1].numWorkers = 1
  /\ Cardinality(InFlight) = 1
  /\ Pending # {}

(* ------------------------------- C11 ----------------------------------- *)

\* a task of the running Throttle has rejected
SomeTaskRejected == \E n \in Surviving : task[n] = "rejected"

\* C11: the Throttle run never rejects and settles only after every task of
\* its list has settled.  After a task has rejected, a task not yet started
\* can still start whenever a slot is free, the run does not resolve while a
\* task is pending or running, it resolves once none is, and the pass is
\* never rejected by it.
C11_ThrottleSettlesAfterEveryTask ==
  /\ phase \in {"ending", "done"} => Surviving \subseteq Settled
  /\ phase = "rejected" => \A n \in Names : task[n] = "none"
  /\ (phase = "throttle" /\ SomeTaskRejected) =>
       /\ (Pending # {} /\ Cardinality(Running) < limit) => ENABLED TaskStart
       /\ (Pending # {} \/ Running # {}) => ~ENABLED ThrottleResolved
       /\ (Pending = {} /\ Running = {}) => ENABLED ThrottleResolved

\* one task rejected while the other had not started; the other was started
\* and fulfilled before the run resolved
C11_Witness ==
  /\ phase = "done"
  /\ limit = 1
  /\ task["a.html"] = "rejected"
  /\ task["b.html"] = "fulfilled"
  /\ updated["b.html"] = 1

(* ------------------------------- C12 ----------------------------------- *)

\* C12: a pool instantiated in a pass has its end invoked exactly once in
\* that pass, and only after every task has settled, whatever mix of tasks
\* succeeded and failed; when the pass has returned no pool it created is
\* still live.
C12_PoolEndedOnceAfterAllTasks ==
  /\ endCalls <= 1
  /\ endCalls = 1 =>
       /\ initializedWorker # <<>>
       /\ phase \in {"ending", "done"}
       /\ Surviving \subseteq Settled
  /\ (phase = "throttle" /\ (Pending # {} \/ Running # {})) => endCalls = 0
  /\ (phase \in {"done", "rejected"} /\ poolsCreated > 0) =>
       /\ endCalls = 1
       /\ initializedWorker # <<>>
       /\ initializedWorker[1].ended

\* a pass whose pool served one task that threw and one that succeeded has
\* returned with the pool ended
C12_Witness ==
  /\ phase = "done"
  /\ poolsCreated = 1
  /\ endCalls = 1
  /\ initializedWorker[1].ended
  /\ caught # {}
  /\ \E n \in Surviving : updated[n] = 1

(* ------------------------------- C13 ----------------------------------- *)

\* the tasks whose call went through getWorker() and is in flight
PoolCalls == IF getWorker THEN InFlight ELSE {}

\* C13: within one pass at most one pool is ever constructed, in every
\* interleaving of the tasks; the variable the tasks read the pool from holds
\* that one instance from its construction on, so tasks whose calls overlap
\* use the same pool.
C13_AtMostOnePool ==
  /\ poolsCreated <= 1
  /\ poolsCreated = 1 <=> initializedWorker # <<>>
  /\ PoolCalls # {} =>
       /\ initializedWorker # <<>>
       /\ ~initializedWorker[1].ended
       /\ initializedWorker[1].numWorkers = numberOfWorkers

\* two tasks have calls in flight at once through the single pool
C13_Witness ==
  /\ phase = "throttle"
  /\ getWorker
  /\ Cardinality(InFlight) = 2
  /\ poolsCreated = 1

(* ------------------------------- C14 ----------------------------------- *)

\* the tasks of cache misses that have started
StartedMisses ==
  {n \in Surviving : ~IsHit(n) /\ task[n] \notin {"none", "pending"}}

\* C14: a pool is constructed only when the task of a cache miss starts its
\* minimization call while availableNumberOfCores > 0: none exists before the
\* first such task has started, and a pass whose surviving assets are all
\* cache hits, a pass with availableNumberOfCores <= 0 and a pass with no
\* surviving asset construct none.
C14_PoolOnlyForStartedMiss ==
  /\ poolsCreated > 0 =>
       /\ availableNumberOfCores > 0
       /\ StartedMisses # {}
  /\ initializedWorker # <<>> => poolsCreated > 0
  /\ (InPass /\ ~(availableNumberOfCores > 0)) => poolsCreated = 0
  /\ (InPass /\ \A n \in Surviving : IsHit(n)) => poolsCreated = 0
  /\ (InPass /\ Surviving = {}) => poolsCreated = 0

\* with cores available a pass over two cache hits has completed, both assets
\* updated, and no pool was constructed
C14_Witness ==
  /\ phase = "done"
  /\ availableNumberOfCores > 0
  /\ Cardinality(Surviving) = 2
  /\ \A n \in Surviving : IsHit(n) /\ updated[n] = 1
  /\ poolsCreated = 0

(* ------------------------------- C15 ----------------------------------- *)

\* C15: no failure inside a task escapes it: the task never rejects, and a
\* task that ended without updating its asset has pushed an error tagged
\* with the asset.
C15_NoTaskFailureEscapes ==
  \A n \in Surviving :
    /\ task[n] # "rejected"
    /\ (task[n] = "fulfilled" /\ updated[n] = 0) =>
         TaggedWith(PassErrors, n) # <<>>

(* ------------------------------- C16 ----------------------------------- *)

\* the task of the asset has ended with a minimization result in hand: the
\* replayed entry, or what the call of this pass resolved with
HasResult(n) == n \in Surviving /\ n \in Settled /\ n \notin caught

ResultOf(n) ==
  IF IsHit(n) THEN item[n].output[1]
  ELSE IF taskOutput[n] # <<>> THEN taskOutput[n][1]
  ELSE cache[KeyOf(n)][1]

\* the warning entries a result yields for its asset
WarningsFor(r, n) == [i \in 1..Len(r.warnings) |-> buildWarning(r.warnings[i], n)]

\* C16: an asset whose result, fresh or replayed, carries k >= 1 warnings
\* and no errors gets exactly k warning entries tagged with its name and is
\* updated with the minimized content and minimized: true; every warning and
\* error entry of the pass carries the name of the asset whose task pushed it.
C16_WarningsNonFatalAndAttributed ==
  /\ \A n \in Names :
       HasResult(n) =>
         LET r == ResultOf(n)
         IN (Len(r.warnings) >= 1 /\ r.errors = <<>>) =>
              /\ TaggedWith(PassWarnings, n) = WarningsFor(r, n)
              /\ assets[n] = [content |-> r.source, minimized |-> TRUE]
  /\ InPass =>
       /\ \A i \in 1..Len(PassWarnings) :
            /\ PassWarnings[i].file \in Surviving
            /\ updated[PassWarnings[i].file] = 1
       /\ \A i \in 1..Len(PassErrors) :
            /\ PassErrors[i].file \in Surviving
            /\ \/ updated[PassErrors[i].file] = 1
               \/ PassErrors[i].file \in caught

(* ------------------------------- C17 ----------------------------------- *)

\* the assets that have a task in this pass
WithTask == {n \in Names : task[n] # "none"}

\* C17: a pass creates exactly one task per surviving asset and writes each
\* asset back at most once: the list of surviving assets names no asset
\* twice, an asset is updated only by its own task, once, when that task
\* completes, and an asset that was not updated is as the pass found it.
C17_OneTaskOneUpdatePerAsset ==
  /\ Cardinality(Surviving) = Len(assetsForMinify)
  /\ phase \in {"throttle", "ending"} => WithTask = Surviving
  /\ WithTask \subseteq Surviving
  /\ \A n \in Names :
       /\ updated[n] <= 1
       /\ updated[n] = 1 =>
            /\ n \in Surviving
            /\ task[n] = "fulfilled"
            /\ assets[n].minimized
       /\ (InPass /\ updated[n] = 0) => assets[n] = startAssets[n]

\* two tasks have completed and each asset was written once
C17_Witness ==
  /\ phase = "done"
  /\ Cardinality(Surviving) = 2
  /\ \A n \in Surviving : updated[n] = 1 /\ assets[n] # startAssets[n]
  /\ assets["c.js"] = startAssets["c.js"]

(* ------------------------------- C18 ----------------------------------- *)

\* the step is the write of the task of n to the cache store
WritesEntry(n) == task[n] = "store" /\ task'[n] = "fulfilled"

\* C18: over passes that share a store which keeps its entries, the entry of
\* a key is written at most once and never overwritten: an entry that exists
\* is left as it is by every step; an entry appears only by the write of a
\* task whose minimization call for that key has returned a result in this
\* pass, before the task updates its asset; and a pass whose lookup found an
\* entry for a key does not write that key.
C18_CacheEntryWrittenOnce ==
  /\ [][\A k \in CacheKeys :
          /\ cache[k] # <<>> => cache'[k] = cache[k]
          /\ cache'[k] # cache[k] =>
               /\ k = KeyOf(k[1])
               /\ WritesEntry(k[1])
               /\ k[1] \in invoked
               /\ k[1] \notin caught
               /\ ~IsHit(k[1])
               /\ updated[k[1]] = 0
               /\ cache'[k] = <<StoredEntry(taskOutput[k[1]][1])>>]_vars
  /\ [][\A n \in Names : WritesEntry(n) => cache[KeyOf(n)] = <<>>]_vars
  /\ [](\A n \in Surviving : IsHit(n) => KeyOf(n) \notin stored)

\* a later pass has found the entry an earlier pass wrote for a.html (no
\* store starts with an entry for that content), updated the asset from it
\* and written nothing
C18_Witness ==
  /\ phase = "done"
  /\ IsHit("a.html")
  /\ item["a.html"].inputSource = 1
  /\ updated["a.html"] = 1
  /\ cache[KeyOf("a.html")] # <<>>
  /\ stored = {}

(* ------------------------------- C19 ----------------------------------- *)

\* the cache hits among the surviving assets
Hits == {n \in Surviving : IsHit(n)}

\* C19: whenever throttleAll is called its limit is an integer >= 1 and its
\* task list is not empty, whether availableNumberOfCores is positive, zero
\* or negative and however many surviving assets are cache hits; a pass with
\* no surviving asset returns without calling it.
C19_LimitAtLeastOne ==
  /\ phase = "throttle" =>
       /\ limit \in Nat
       /\ limit >= 1
       /\ limit <= Len(assetsForMinify)
       /\ Len(assetsForMinify) >= 1
       /\ WithTask = Surviving
  /\ (phase \in {"ending", "done"} /\ Surviving # {}) => limit >= 1
  /\ (phase = "done" /\ Surviving = {}) => WithTask = {} /\ limit = 0

\* Throttle is running with cores available and every surviving asset a
\* cache hit: the limit is the number of tasks
C19_Witness ==
  /\ phase = "throttle"
  /\ availableNumberOfCores > 0
  /\ Cardinality(Surviving) = 2
  /\ Hits = Surviving
  /\ numberOfWorkers = 0
  /\ limit = 2

\* Throttle is running with a negative availableNumberOfCores
C19_WitnessNegativeCores ==
  /\ phase = "throttle"
  /\ availableNumberOfCores < 0
  /\ limit = Len(assetsForMinify)

(* ------------------------------- C20 ----------------------------------- *)

\* the pass has begun and has not returned
PassRunning == phase \in {"cache", "throttle", "ending"}

\* the pass has returned, or was rejected by a cache lookup
PassOver == phase \in {"done", "rejected"}

\* a pool was created and its end has not resolved
PoolLive == initializedWorker # <<>> /\ ~initializedWorker[1].ended

\* C20: under fair scheduling, with every cache operation and minimization
\* call returning or failing, a pass that has begun terminates: it returns
\* (or is rejected by a cache lookup), and when it has returned every task
\* scheduled has been started and has settled and the pool, if one was
\* created, is shut down.  And while a minimization call has not settled the
\* pass has not reached the pool's teardown.
C20_PassTerminates ==
  /\ PassRunning ~> PassOver
  /\ [](phase = "done" => (Surviving \subseteq Settled /\ ~PoolLive))
  /\ [](InFlight # {} => (phase = "throttle" /\ endCalls = 0))

\* a pass with a pool has returned: both tasks settled and the pool shut down
C20_Witness ==
  /\ phase = "done"
  /\ Cardinality(Surviving) = 2
  /\ Surviving \subseteq Settled
  /\ invoked = Surviving
  /\ endCalls = 1
  /\ initializedWorker # <<>>
  /\ initializedWorker[1].ended

====
